---- MODULE Spec2Model ----
(***************************************************************************)
(* Model of cargo-v5's project scaffolder (src/src/commands/new.rs, built  *)
(* with the "fetch-template" feature): template acquisition with the       *)
(* on-disk cache, archive unpacking and the manifest rewrite; and of the   *)
(* build driver (src/src/main.rs): toolchain checks, the cargo child and   *)
(* its message stream, objcopy postprocessing and the simulator.           *)
(*                                                                         *)
(* Option<T> is a sequence of length at most one: None is << >> and        *)
(* Some(x) is <<x>>.  The bytes of the remote archive at version v are     *)
(* the number v and the commit sha of that version is the number v too;    *)
(* the archive compiled into the binary is BakedData.                      *)
(***************************************************************************)
EXTENDS Integers, Sequences, FiniteSets, TLC

\* ---------------------------------------------------------------- bounds
\* Number of versions the remote template repository goes through.
MaxVer == 3
\* Longest entry path (in path components) of a generated archive.
MaxDepth == 3
\* Longest generated manifest and project name, in text chunks.
MaxManifest == 4
MaxName == 2
\* Longest message stream of the cargo child.
MaxStream == 3

\* ------------------------------------------------------------ Option<T>
None == << >>
Some(x) == <<x>>
IsSome(o) == Len(o) = 1
Unwrap(o) == o[1]

\* Result<String, CliError> of get_current_sha
Ok(v) == [ok |-> TRUE, val |-> v, err |-> "none"]
Err(e) == [ok |-> FALSE, val |-> 0, err |-> e]

Versions == 1..MaxVer

\* struct Template { data, sha }
Template(d, s) == [data |-> d, sha |-> s]

\* include_bytes!("./vexide-template.tar.gz")
BakedData == 0

baked_in_template == Template(BakedData, None)

\* ------------------------------------------------- archives and paths
\* A path is the sequence of its components.  NonUtf8 holds the components
\* that are not valid UTF-8 (a tar path is a byte string).
Segs == {"root", "Cargo.toml", "<non-utf8>"}
NonUtf8 == {"<non-utf8>"}
Paths == UNION {[1..n -> Segs] : n \in 1..MaxDepth}

\* An item of archive.entries(): Ok(entry) with its path, or Err (a corrupt
\* header, a truncated or undecodable stream).
OkEntry(p) == [kind |-> "ok", path |-> p]
ErrEntry == [kind |-> "err", path |-> << >>]
Entries == {OkEntry(p) : p \in Paths} \cup {ErrEntry}
Archives == {<< >>} \cup {<<a>> : a \in Entries} \cup {<<a, b>> : a, b \in Entries}

\* The target directory `dir`, and dir.join("Cargo.toml").
TargetDir == <<"<dir>">>
ManifestPath == TargetDir \o <<"Cargo.toml">>

\* Mutant of StrippedPath: two leading components dropped.
M_StrippedPath_Skip2(path) == SubSeq(path, 3, Len(path))

\* path.iter().skip(1).collect::<PathBuf>()
StrippedPath(path) == SubSeq(path, 2, Len(path))

\* PathBuf::to_str: None unless the path is valid UTF-8.
ToStr(path) ==
    IF \E i \in 1..Len(path) : path[i] \in NonUtf8 THEN None ELSE Some(path)

\* Path::new(dir).join(stripped_path)
Join(dir, rel) == dir \o rel

\* unpack_template from entry i on, fs the files written so far.
RECURSIVE UnpackFrom(_, _, _)
UnpackFrom(archive, i, fs) ==
    IF i > Len(archive) THEN [files |-> fs, ok |-> TRUE]
    ELSE IF archive[i].kind = "err" THEN [files |-> fs, ok |-> FALSE]
    ELSE LET stripped_path == ToStr(StrippedPath(archive[i].path)) IN
         IF IsSome(stripped_path)
         THEN UnpackFrom(archive, i + 1,
                         fs \cup {Join(TargetDir, Unwrap(stripped_path))})
         ELSE UnpackFrom(archive, i + 1, fs)

\* Mutant of unpack_template: the whole archive is decoded before the first
\* write, so a bad entry leaves nothing behind.
M_unpack_template_Atomic(archive, fs) ==
    IF \E i \in 1..Len(archive) : archive[i].kind = "err"
    THEN [files |-> fs, ok |-> FALSE]
    ELSE UnpackFrom(archive, 1, fs)

unpack_template(archive, fs) == UnpackFrom(archive, 1, fs)

\* ------------------------------------------------------ manifest text
\* Text is a sequence of chunks; "vexide-" and "template" are the only
\* chunks holding the letters of the placeholder, so an occurrence of
\* "vexide-template" in a text is exactly an occurrence of Placeholder.
Chars == {"vexide-", "template", "x"}
Placeholder == <<"vexide-", "template">>

MatchAt(s, i, pat) ==
    /\ i + Len(pat) - 1 <= Len(s)
    /\ SubSeq(s, i, i + Len(pat) - 1) = pat

\* str::replace from position i on: every non-overlapping match, left to
\* right; the inserted text is not scanned again.
RECURSIVE ReplaceFrom(_, _, _, _)
ReplaceFrom(s, i, from, to) ==
    IF i > Len(s) THEN << >>
    ELSE IF MatchAt(s, i, from) THEN to \o ReplaceFrom(s, i + Len(from), from, to)
    ELSE <<s[i]>> \o ReplaceFrom(s, i + 1, from, to)

\* Mutant of Replace: after a match the scan goes on one chunk further
\* instead of past the match.
RECURSIVE M_ReplaceFrom_NoSkip(_, _, _, _)
M_ReplaceFrom_NoSkip(s, i, from, to) ==
    IF i > Len(s) THEN << >>
    ELSE IF MatchAt(s, i, from) THEN to \o M_ReplaceFrom_NoSkip(s, i + 1, from, to)
    ELSE <<s[i]>> \o M_ReplaceFrom_NoSkip(s, i + 1, from, to)

M_Replace_NoSkip(s, from, to) == M_ReplaceFrom_NoSkip(s, 1, from, to)

Replace(s, from, to) == ReplaceFrom(s, 1, from, to)

Texts(n) == UNION {[1..k -> Chars] : k \in 0..n}
Manifests == Texts(MaxManifest)
Names == Texts(MaxName) \ {<< >>}

\* Sample inputs of `new`: the archives the resolved bytes may decode to,
\* the manifest the template ships, and the `name` argument.
NewArchives ==
    { <<OkEntry(<<"root">>), OkEntry(<<"root", "Cargo.toml">>)>>,
      <<OkEntry(<<"root", "Cargo.toml">>), ErrEntry>>,
      <<OkEntry(<<"root", "root", "root">>)>>,
      <<ErrEntry>> }
NewManifests == { <<"x", "vexide-", "template", "x">> }
NewNameArgs == { None, Some(<<"x", "x">>) }
\* dir.file_name() when no name is given
DirFileName == <<"x">>
\* Target directories: missing, empty, or holding a file already.
OldFile == TargetDir \o <<"<old>">>
TargetDirs == { None, Some({}), Some({OldFile}) }

\* ----------------------------------------------------------------- state
VARIABLES
    remoteVer,          \* version the remote repository is at
    cacheDir,           \* whether the platform cache directory exists
    cacheFile,          \* Option: contents of vexide-template.tar.gz
    shaFile,            \* Option: contents of cache-id.txt
    pc,                 \* position of the running `new`, "idle" between runs
    download_template,  \* argument of new
    name,               \* project name (line 139)
    target,             \* Option: set of files of the target directory
    cached,             \* `template` of line 143
    current_sha,        \* Option: result of get_current_sha() at line 148
    bytes,              \* Option: downloaded bytes (line 48)
    fetched,            \* Option: the Template built at lines 51-54
    resolved,           \* Option: `template` of line 146
    template_used,      \* Option: `template` of line 166, whose data is unpacked
    archive,            \* the archive unpack_template decoded
    manifest_in,        \* Option: Cargo.toml as read at line 180
    manifest_out,       \* Option: Cargo.toml as written at line 182
    result,             \* "running", "Ok", "ProjectDirFull", or the io::Error of
                        \* line 175 ("UnpackError") or 180 ("ManifestError")
    inflight,           \* network requests sent and not yet answered
    nShaReq,            \* fingerprint requests sent in this run
    nDownload,          \* archive downloads sent in this run
    nStore,             \* calls of store_cached_template in this run
    writeFailed,        \* a cache write of this run failed
    warned,             \* the warn! of line 159 was logged in this run
    cacheAtCall,        \* the cache files when this run began
    remoteAtCall,       \* the remote version when this run began
    targetAtCall        \* the target directory when this run began

envVars == <<remoteVer, cacheDir, cacheFile, shaFile>>
argVars == <<download_template, name>>
localVars == <<cached, current_sha, bytes, fetched, resolved>>
outVars == <<template_used, archive, manifest_in, manifest_out>>
logVars == <<inflight, nShaReq, nDownload, nStore, writeFailed, warned>>
callVars == <<cacheAtCall, remoteAtCall, targetAtCall>>
newVars == <<envVars, argVars, localVars, outVars, logVars, callVars, pc, target, result>>

\* State of one invocation of the binary of src/src/main.rs.
VARIABLES
    command,            \* "build" or "simulate" ("none": no invocation modelled)
    simulator,          \* the --simulator flag of Commands::Build
    mpc,                \* position in main / build / strip_binary
    nNightly,           \* calls of is_nightly_toolchain so far
    rustc,              \* Option: what `rustc --version` printed at the last call
    hint,               \* the last warning or panic message printed, "none" if none
    lastSpawn,          \* Option: program and outcome of the last Command::spawn
    diag,               \* Option: the command named by "command `..` not found"
    exitCode,           \* Option: the exit status the process ended with
    exitWhy,            \* why it ended, "running" until then
    probe,              \* Option: what the rustup probe of has_wasm_target gave
    descriptor,         \* target/armv7a-vexos-eabi.json has been written
    spawned,            \* the cargo build child has been spawned
    stream,             \* the messages the child emits
    pos,                \* messages consumed so far
    handled,            \* arguments of handle_executable, in call order
    wasm_path,          \* Option: `wasm_path` of the simulate arm
    running,            \* Option: the objcopy child that runs now
    outputs,            \* files objcopy has written, in order
    simStarted          \* pros_simulator::simulate has been called

buildVars == <<command, simulator, mpc, nNightly, rustc, hint, lastSpawn, diag, exitCode, exitWhy, probe,
               descriptor, spawned, stream, pos, handled, wasm_path, running, outputs,
               simStarted>>
vars == <<newVars, buildVars>>

CacheRecord == [data |-> cacheFile, sha |-> shaFile]

\* ------------------------------------------------- the code's decisions
\* cached_template_dir() is Some only if the cache directory exists;
\* get_cached_template() is Some only if the archive file can be read.
get_cached_template ==
    IF cacheDir
    THEN IF IsSome(cacheFile) THEN Some(Template(Unwrap(cacheFile), shaFile)) ELSE None
    ELSE None

\* A directory is the set of paths unpacked into it; an entry unpacked to
\* the directory's own path (the archive's root entry) creates the
\* directory and adds nothing to its listing.
DirEntries(dir) == Unwrap(dir) \ {TargetDir}

\* std::fs::read_dir(&dir): Err for a missing directory, else its entries.
ReadDir(dir) ==
    IF IsSome(dir) THEN Ok(Cardinality(DirEntries(dir))) ELSE Err("NotFound")

\* Mutant of DirFull: a directory that cannot be listed counts as full.
M_DirFull_MissingIsFull(dir) == ~ReadDir(dir).ok \/ ReadDir(dir).val > 0

\* read_dir(&dir).is_ok_and(|e| e.count() > 0)
DirFull(dir) == ReadDir(dir).ok /\ ReadDir(dir).val > 0

\* template.clone().and_then(|t| t.sha)
CachedSha(template) == IF IsSome(template) THEN Unwrap(template).sha ELSE None

\* Mutant of CacheIsCurrent: the comparison inverted.
M_CacheIsCurrent_Ne(cached_sha, sha) ==
    IsSome(cached_sha) /\ sha.ok /\ Unwrap(cached_sha) # sha.val

\* (Some(cached_sha), Ok(current_sha)) if cached_sha == current_sha
CacheIsCurrent(cached_sha, sha) ==
    IsSome(cached_sha) /\ sha.ok /\ Unwrap(cached_sha) = sha.val

\* Mutants of MatchArm: a failed fingerprint fetch keeps the cache; the
\* download_template flag is not looked at.
M_MatchArm_ErrKeepsCache(download, cached_sha, sha) ==
    IF ~download THEN "cache"
    ELSE IF ~sha.ok \/ CacheIsCurrent(cached_sha, sha) THEN "current"
    ELSE "fetch"

M_MatchArm_IgnoresFlag(download, cached_sha, sha) ==
    IF CacheIsCurrent(cached_sha, sha) THEN "current" ELSE "fetch"

\* Mutant of MatchArm: a malformed metadata response is not followed by a
\* download.
M_MatchArm_MalformedStops(download, cached_sha, sha) ==
    IF ~download THEN "cache"
    ELSE IF sha.err = "MalformedResponse" \/ CacheIsCurrent(cached_sha, sha)
    THEN "current"
    ELSE "fetch"

\* The arm the match of lines 146-163 takes.
MatchArm(download, cached_sha, sha) ==
    IF ~download THEN "cache"
    ELSE IF CacheIsCurrent(cached_sha, sha) THEN "current"
    ELSE "fetch"

\* Mutant of OrElse: no fallback to the cached template.
M_OrElse_NoFallback(fetched_template, template) == fetched_template

\* fetched_template.or_else(|| template)
OrElse(fetched_template, template) ==
    IF IsSome(fetched_template) THEN fetched_template ELSE template

\* Mutant of UnwrapOrBaked: the bundled archive whatever was resolved.
M_UnwrapOrBaked_Always(template) == baked_in_template

\* template.unwrap_or_else(|| baked_in_template())
UnwrapOrBaked(template) ==
    IF IsSome(template) THEN Unwrap(template) ELSE baked_in_template

\* Result::ok
OkOpt(r) == IF r.ok THEN Some(r.val) ELSE None

\* What the metadata request can answer while the remote is at version v.
ShaOutcomes(v) == { Ok(v), Err("ReqwestError"), Err("MalformedResponse") }

\* ------------------------------------------------------------------ Init
IdleLocals ==
    /\ download_template = FALSE
    /\ cached = None
    /\ current_sha = None
    /\ bytes = None
    /\ fetched = None
    /\ resolved = None
    /\ template_used = None
    /\ manifest_out = None
    /\ result = "none"
    /\ inflight = {}
    /\ nShaReq = 0
    /\ nDownload = 0
    /\ nStore = 0
    /\ writeFailed = FALSE
    /\ warned = FALSE

EmptyCache ==
    /\ remoteVer = 1
    /\ cacheFile = None
    /\ shaFile = None
    /\ cacheAtCall = CacheRecord
    /\ remoteAtCall = remoteVer

\* No invocation of main.rs is running.
BuildIdle ==
    /\ command = "none"
    /\ simulator = FALSE
    /\ mpc = "off"
    /\ nNightly = 0
    /\ rustc = None
    /\ hint = "none"
    /\ lastSpawn = None
    /\ diag = None
    /\ exitCode = None
    /\ exitWhy = "running"
    /\ probe = None
    /\ descriptor = FALSE
    /\ spawned = FALSE
    /\ stream = << >>
    /\ pos = 0
    /\ handled = << >>
    /\ wasm_path = None
    /\ running = None
    /\ outputs = << >>
    /\ simStarted = FALSE

Init ==
    /\ BuildIdle
    /\ EmptyCache
    /\ cacheDir \in BOOLEAN
    /\ pc = "idle"
    /\ IdleLocals
    /\ name = << >>
    /\ target = None
    /\ targetAtCall = None
    /\ archive = << >>
    /\ manifest_in = None

\* --------------------------------------------------------------- actions
\* new(path, name, download_template), lines 127-140.
NewCall ==
    /\ pc = "idle"
    /\ \E dl \in BOOLEAN, name_arg \in NewNameArgs, dir \in TargetDirs :
        /\ download_template' = dl
        /\ name' = IF IsSome(name_arg) THEN Unwrap(name_arg) ELSE DirFileName
        /\ target' = dir
        /\ IF DirFull(dir)
           THEN pc' = "done" /\ result' = "ProjectDirFull"
           ELSE pc' = "get_cached" /\ result' = "running"
    /\ cacheAtCall' = CacheRecord
    /\ remoteAtCall' = remoteVer
    /\ targetAtCall' = target'
    /\ UNCHANGED <<buildVars, envVars, localVars, outVars, logVars>>

\* let template = get_cached_template().await;  (line 143)
GetCached ==
    /\ pc = "get_cached"
    /\ cached' = get_cached_template
    /\ pc' = "sha_send"
    /\ UNCHANGED <<buildVars, envVars, argVars, current_sha, bytes, fetched, resolved,
                   outVars, logVars, callVars, target, result>>

\* Mutant of ShaSend: the archive request is sent together with the
\* fingerprint request instead of after its answer.
M_ShaSend_Racing ==
    /\ pc \in {"sha_send", "sha2_send"}
    /\ inflight' = inflight \cup {"sha", "download"}
    /\ nShaReq' = nShaReq + 1
    /\ nDownload' = nDownload + 1
    /\ pc' = IF pc = "sha_send" THEN "sha_wait" ELSE "sha2_wait"
    /\ UNCHANGED <<buildVars, envVars, argVars, localVars, outVars, nStore,
                   writeFailed, warned, callVars, target, result>>

\* get_current_sha(): the request is sent (lines 21-26), from new (line 148)
\* or from fetch_template (line 53).
ShaSend ==
    /\ pc \in {"sha_send", "sha2_send"}
    /\ inflight' = inflight \cup {"sha"}
    /\ nShaReq' = nShaReq + 1
    /\ pc' = IF pc = "sha_send" THEN "sha_wait" ELSE "sha2_wait"
    /\ UNCHANGED <<buildVars, envVars, argVars, localVars, outVars, nDownload, nStore,
                   writeFailed, warned, callVars, target, result>>

\* get_current_sha() of line 148 answers; the match of lines 146-163 picks
\* its arm.
ShaRecv ==
    /\ pc = "sha_wait"
    /\ \E sha \in ShaOutcomes(remoteVer) :
        /\ current_sha' = Some(sha)
        /\ LET arm == MatchArm(download_template, CachedSha(cached), sha) IN
           IF arm = "fetch"
           THEN pc' = "fetch_send" /\ resolved' = resolved
           ELSE pc' = "unpack" /\ resolved' = cached
    /\ inflight' = inflight \ {"sha"}
    /\ UNCHANGED <<buildVars, envVars, argVars, cached, bytes, fetched, outVars, nShaReq,
                   nDownload, nStore, writeFailed, warned, callVars, target, result>>

\* fetch_template(): the archive request is sent (lines 41-43).
FetchSend ==
    /\ pc = "fetch_send"
    /\ inflight' = inflight \cup {"download"}
    /\ nDownload' = nDownload + 1
    /\ pc' = "fetch_wait"
    /\ UNCHANGED <<buildVars, envVars, argVars, localVars, outVars, nShaReq, nStore,
                   writeFailed, warned, callVars, target, result>>

\* Mutant of FetchRecv: the fallback after a failed download logs nothing.
M_FetchRecv_NoWarn ==
    /\ pc = "fetch_wait"
    /\ inflight' = inflight \ {"download"}
    /\ \E ok \in BOOLEAN :
        IF ok
        THEN /\ bytes' = Some(remoteVer)
             /\ pc' = "sha2_send"
             /\ UNCHANGED <<resolved, warned>>
        ELSE /\ resolved' = OrElse(None, cached)
             /\ pc' = "unpack"
             /\ UNCHANGED <<bytes, warned>>
    /\ UNCHANGED <<buildVars, envVars, argVars, cached, current_sha, fetched, outVars,
                   nShaReq, nDownload, nStore, writeFailed, callVars, target, result>>

\* The archive request answers.  A failure (line 46, or line 48 reading the
\* body) makes fetch_template return Err: new logs the warning and falls
\* back to the cached template (lines 157-161).
FetchRecv ==
    /\ pc = "fetch_wait"
    /\ inflight' = inflight \ {"download"}
    /\ \E ok \in BOOLEAN :
        IF ok
        THEN /\ bytes' = Some(remoteVer)
             /\ pc' = "sha2_send"
             /\ UNCHANGED <<resolved, warned>>
        ELSE /\ resolved' = OrElse(None, cached)
             /\ warned' = TRUE
             /\ pc' = "unpack"
             /\ UNCHANGED bytes
    /\ UNCHANGED <<buildVars, envVars, argVars, cached, current_sha, fetched, outVars,
                   nShaReq, nDownload, nStore, writeFailed, callVars, target, result>>

\* sha: get_current_sha().await.ok()  (lines 51-54)
Sha2Recv ==
    /\ pc = "sha2_wait"
    /\ \E sha \in ShaOutcomes(remoteVer) :
        fetched' = Some(Template(Unwrap(bytes), OkOpt(sha)))
    /\ inflight' = inflight \ {"sha"}
    /\ pc' = "store"
    /\ UNCHANGED <<buildVars, envVars, argVars, cached, current_sha, bytes, resolved, outVars,
                   nShaReq, nDownload, nStore, writeFailed, warned, callVars,
                   target, result>>

\* store_cached_template(template.clone()) (lines 76-85); each write may
\* fail and its error is dropped (`let _ =`).  fetch_template then returns
\* Ok(template), which new takes (lines 157-158).
StoreCached ==
    /\ pc = "store"
    /\ \E wData \in BOOLEAN, wSha \in BOOLEAN :
        LET template == Unwrap(fetched) IN
        /\ cacheFile' = IF cacheDir /\ wData THEN Some(template.data) ELSE cacheFile
        /\ shaFile' = IF cacheDir /\ IsSome(template.sha) /\ wSha
                      THEN template.sha ELSE shaFile
        /\ writeFailed' = (cacheDir /\ (~wData \/ (IsSome(template.sha) /\ ~wSha)))
    /\ nStore' = nStore + 1
    /\ resolved' = OrElse(fetched, cached)
    /\ pc' = "unpack"
    /\ UNCHANGED <<buildVars, remoteVer, cacheDir, argVars, cached, current_sha, bytes, fetched,
                   outVars, inflight, nShaReq, nDownload, warned, callVars,
                   target, result>>

\* Lines 165-185 with the resolved bytes decoding to archive a and the
\* template's manifest being m: the bundled archive if nothing was
\* resolved, the unpack, and the manifest rewrite.
ScaffoldWith(a, m) ==
    LET r == unpack_template(a, IF IsSome(target) THEN Unwrap(target) ELSE {}) IN
    /\ template_used' = Some(UnwrapOrBaked(resolved))
    /\ archive' = a
    /\ target' = IF r.files = {} THEN target ELSE Some(r.files)
    /\ IF ~r.ok
       THEN /\ result' = "UnpackError"
            /\ UNCHANGED <<manifest_in, manifest_out>>
       ELSE IF ManifestPath \notin r.files
       THEN /\ result' = "ManifestError"
            /\ UNCHANGED <<manifest_in, manifest_out>>
       ELSE /\ manifest_in' = Some(m)
            /\ manifest_out' = Some(Replace(m, Placeholder, name))
            /\ result' = "Ok"
    /\ pc' = "done"
    /\ UNCHANGED <<buildVars, envVars, argVars, localVars, logVars, callVars>>

Scaffold ==
    /\ pc = "unpack"
    /\ \E a \in NewArchives, m \in NewManifests : ScaffoldWith(a, m)

\* new returns; the next invocation starts from fresh locals.
Return ==
    /\ pc = "done"
    /\ pc' = "idle"
    /\ download_template' = FALSE
    /\ name' = << >>
    /\ target' = None
    /\ cached' = None
    /\ current_sha' = None
    /\ bytes' = None
    /\ fetched' = None
    /\ resolved' = None
    /\ template_used' = None
    /\ archive' = << >>
    /\ manifest_in' = None
    /\ manifest_out' = None
    /\ result' = "none"
    /\ inflight' = {}
    /\ nShaReq' = 0
    /\ nDownload' = 0
    /\ nStore' = 0
    /\ writeFailed' = FALSE
    /\ warned' = FALSE
    /\ UNCHANGED <<buildVars, envVars, callVars>>

\* The remote repository gets a new commit (at any time, also mid-run).
RemotePublish ==
    /\ remoteVer < MaxVer
    /\ remoteVer' = remoteVer + 1
    /\ UNCHANGED <<buildVars, cacheDir, cacheFile, shaFile, argVars, localVars, outVars,
                   logVars, callVars, pc, target, result>>

\* The platform cache directory is created (the code never creates it).
MkCacheDir ==
    /\ ~cacheDir
    /\ cacheDir' = TRUE
    /\ UNCHANGED <<buildVars, remoteVer, cacheFile, shaFile, argVars, localVars, outVars,
                   logVars, callVars, pc, target, result>>

Next ==
    \/ NewCall
    \/ GetCached
    \/ ShaSend
    \/ ShaRecv
    \/ FetchSend
    \/ FetchRecv
    \/ Sha2Recv
    \/ StoreCached
    \/ Scaffold
    \/ Return
    \/ RemotePublish
    \/ MkCacheDir

Spec == Init /\ [][Next]_vars

\* ------------------------------------------- unpack_template on its own
\* new at line 174 with an empty or missing target directory, over every
\* archive the resolved bytes may decode to.
InitUnpack ==
    /\ BuildIdle
    /\ EmptyCache
    /\ cacheDir = FALSE
    /\ pc = "unpack"
    /\ IdleLocals
    /\ name = DirFileName
    /\ target \in {None, Some({})}
    /\ targetAtCall = target
    /\ archive \in Archives
    /\ manifest_in = None

ScaffoldArchive ==
    /\ pc = "unpack"
    /\ \E m \in NewManifests : ScaffoldWith(archive, m)

SpecUnpack == InitUnpack /\ [][ScaffoldArchive]_vars

\* ------------------------------------------- the manifest rewrite on its own
\* new at line 180 over every manifest text and project name.
InitManifest ==
    /\ BuildIdle
    /\ EmptyCache
    /\ cacheDir = FALSE
    /\ pc = "rewrite"
    /\ IdleLocals
    /\ name \in Names
    /\ target = Some({ManifestPath})
    /\ targetAtCall = None
    /\ archive = << >>
    /\ manifest_in \in {Some(m) : m \in Manifests}

\* Lines 180-182.
RewriteManifest ==
    /\ pc = "rewrite"
    /\ manifest_out' = Some(Replace(Unwrap(manifest_in), Placeholder, name))
    /\ result' = "Ok"
    /\ pc' = "done"
    /\ UNCHANGED <<buildVars, envVars, argVars, localVars, logVars, callVars, template_used,
                   archive, manifest_in, target>>

SpecManifest == InitManifest /\ [][RewriteManifest]_vars


\* ================================================================ main.rs
\* cargo_bin() without $CARGO set, and objcopy_path() off Windows.
cargo_bin == "cargo"
objcopy_path == "arm-none-eabi-objcopy"

\* str::contains over a text given as its chunks.
Contains(text, word) == \E i \in 1..Len(text) : text[i] = word

\* What `rustc --version` may print.
RustcVersions == {<<"rustc", "1.77.0">>, <<"rustc", "1.77.0", "nightly">>}

M_is_nightly_toolchain_Any(version) == TRUE

is_nightly_toolchain(version) == Contains(version, "nightly")

\* Outcome of `rustup target list --installed`: it could not be executed, or
\* it ran and printed the installed targets.
RustupFailed == [ok |-> FALSE, stdout |-> << >>]
RustupOk(out) == [ok |-> TRUE, stdout |-> out]
RustupOutcomes ==
    {RustupFailed} \cup
    {RustupOk(out) : out \in {<< >>, <<"x86_64-unknown-linux-gnu">>,
                              <<"x86_64-unknown-linux-gnu", "wasm32-unknown-unknown">>}}

M_has_wasm_target_FailClosed(rustup) ==
    rustup.ok /\ Contains(rustup.stdout, "wasm32-unknown-unknown")

has_wasm_target(rustup) ==
    IF ~rustup.ok THEN TRUE ELSE Contains(rustup.stdout, "wasm32-unknown-unknown")

\* Command::spawn gives a child, ErrorKind::NotFound or another error.
SpawnOutcomes == {"Spawned", "NotFound", "PermissionDenied"}

M_spawn_handling_not_found_Returns(program, outcome) ==
    [child |-> outcome = "Spawned", exit |-> None, named |-> None]

\* The result is Ok(child), or the process has exited with `exit` after
\* naming `named`, or Err(err) is returned to the caller.
spawn_handling_not_found(program, outcome) ==
    IF outcome = "NotFound"
    THEN [child |-> FALSE, exit |-> Some(1), named |-> Some(program)]
    ELSE [child |-> outcome = "Spawned", exit |-> None, named |-> None]

\* A utf-8 path is the sequence of its chunks; format!("{}.ext", bin).
ExecPaths == {<<"target/a">>, <<"target/b">>}
Sibling(bin, ext) == bin \o <<ext>>

\* cargo_metadata::Message
CompilerArtifact(executable) == [kind |-> "CompilerArtifact", executable |-> executable]
OtherMessage == [kind |-> "BuildFinished", executable |-> None]
Messages ==
    {CompilerArtifact(Some(p)) : p \in ExecPaths} \cup {CompilerArtifact(None), OtherMessage}
Streams == UNION {[1..n -> Messages] : n \in 0..MaxStream}

\* `for_simulator` of build: the flag of Build, true for Simulate.
for_simulator == command = "simulate" \/ simulator

\* The two closures passed as handle_executable.
M_should_strip_Always == command = "build"

should_strip == command = "build" /\ ~simulator

\* The message makes build call handle_executable.
HasExecutable(message) ==
    message.kind = "CompilerArtifact" /\ IsSome(message.executable)

M_Invoke_Front(calls, binary_path) == <<binary_path>> \o calls

\* handle_executable(binary_path), recorded after the earlier calls.
Invoke(calls, binary_path) == Append(calls, binary_path)

\* The two objcopy commands of strip_binary.
StripCommand(bin) == [op |-> "strip", input |-> bin, output |-> Sibling(bin, ".stripped")]

ConvertCommand(bin) ==
    [op |-> "binary", input |-> Sibling(bin, ".stripped"), output |-> Sibling(bin, ".bin")]

M_expect_Default(opt, msg) == [ok |-> TRUE, val |-> IF IsSome(opt) THEN Unwrap(opt) ELSE << >>]

\* Option::expect: the value, or a panic with msg.
expect(opt, msg) ==
    IF IsSome(opt) THEN [ok |-> TRUE, val |-> Unwrap(opt)] ELSE [ok |-> FALSE, val |-> << >>]

\* The process ends: exit(code), or a panic (status 101).
Exit(code, why) ==
    /\ mpc' = "exited"
    /\ exitCode' = Some(code)
    /\ exitWhy' = why


\* One invocation of the binary: the subcommand and its flag are drawn, the
\* scaffolder is not running.
InitBuild ==
    /\ EmptyCache
    /\ cacheDir = FALSE
    /\ pc = "idle"
    /\ IdleLocals
    /\ name = << >>
    /\ target = None
    /\ targetAtCall = None
    /\ archive = << >>
    /\ manifest_in = None
    /\ command \in {"build", "simulate"}
    /\ simulator \in (IF command = "build" THEN BOOLEAN ELSE {FALSE})
    /\ mpc = "main"
    /\ nNightly = 0
    /\ rustc = None
    /\ hint = "none"
    /\ lastSpawn = None
    /\ diag = None
    /\ exitCode = None
    /\ exitWhy = "running"
    /\ probe = None
    /\ descriptor = FALSE
    /\ spawned = FALSE
    /\ stream = << >>
    /\ pos = 0
    /\ handled = << >>
    /\ wasm_path = None
    /\ running = None
    /\ outputs = << >>
    /\ simStarted = FALSE

\* `if !is_nightly_toolchain() { eprintln!(..); exit(1) }`, then go to next.
NightlyCheck(next) ==
    \E version \in RustcVersions :
        /\ nNightly' = nNightly + 1
        /\ rustc' = Some(version)
        /\ IF is_nightly_toolchain(version)
           THEN /\ mpc' = next
                /\ UNCHANGED <<hint, exitCode, exitWhy>>
           ELSE /\ hint' = "rustup override set nightly"
                /\ Exit(1, "not_nightly")

\* main, lines 75-79.
MainNightly ==
    /\ mpc = "main"
    /\ NightlyCheck("build")
    /\ UNCHANGED <<newVars, command, simulator, lastSpawn, diag, probe, descriptor, spawned, stream,
                   pos, handled, wasm_path, running, outputs, simStarted>>

\* build, lines 122-126.
BuildNightly ==
    /\ mpc = "build"
    /\ NightlyCheck(IF for_simulator THEN "wasm_check" ELSE "write_target")
    /\ UNCHANGED <<newVars, command, simulator, lastSpawn, diag, probe, descriptor, spawned, stream,
                   pos, handled, wasm_path, running, outputs, simStarted>>

\* build, lines 128-144.
WasmCheck ==
    /\ mpc = "wasm_check"
    /\ \E rustup \in RustupOutcomes :
        /\ probe' = Some(rustup)
        /\ IF has_wasm_target(rustup)
           THEN /\ mpc' = "spawn"
                /\ UNCHANGED <<hint, exitCode, exitWhy>>
           ELSE /\ hint' = "rustup target add wasm32-unknown-unknown"
                /\ Exit(1, "no_wasm_target")
    /\ UNCHANGED <<newVars, command, simulator, nNightly, rustc, lastSpawn, diag, descriptor, spawned,
                   stream, pos, handled, wasm_path, running, outputs, simStarted>>

\* build, lines 146-155.
WriteTarget ==
    /\ mpc = "write_target"
    /\ descriptor' = TRUE
    /\ mpc' = "spawn"
    /\ UNCHANGED <<newVars, command, simulator, nNightly, rustc, hint, lastSpawn, diag, exitCode,
                   exitWhy, probe, spawned, stream, pos, handled, wasm_path, running,
                   outputs, simStarted>>

\* `cmd.spawn_handling_not_found().unwrap()`: the child runs and the caller
\* goes on at next, or the process has exited, or the unwrap panics.
Spawns(program, outcome) == spawn_handling_not_found(program, outcome).child

SpawnUnwrap(program, outcome, next) ==
    LET r == spawn_handling_not_found(program, outcome) IN
    /\ lastSpawn' = Some([program |-> program, outcome |-> outcome])
    /\ IF r.child
       THEN /\ mpc' = next
            /\ UNCHANGED <<diag, exitCode, exitWhy>>
       ELSE IF IsSome(r.exit)
            THEN /\ diag' = r.named
                 /\ Exit(Unwrap(r.exit), "not_found")
            ELSE /\ UNCHANGED diag
                 /\ Exit(101, "panic")

\* build, lines 157-160: the child is spawned and its stdout is taken.
SpawnBuild ==
    /\ mpc = "spawn"
    /\ \E outcome \in SpawnOutcomes, out \in Streams :
        /\ SpawnUnwrap(cargo_bin, outcome, "read")
        /\ IF Spawns(cargo_bin, outcome)
           THEN spawned' = TRUE /\ stream' = out
           ELSE UNCHANGED <<spawned, stream>>
    /\ UNCHANGED <<newVars, command, simulator, nNightly, rustc, hint, probe, descriptor,
                   pos, handled, wasm_path, running, outputs, simStarted>>

\* build, lines 161-167, one turn of the loop up to the handler's first step;
\* the closures are those of main, lines 83-87 and 91.
ReadMessage ==
    /\ mpc = "read"
    /\ pos < Len(stream)
    /\ pos' = pos + 1
    /\ LET message == stream[pos + 1] IN
       IF HasExecutable(message)
       THEN LET binary_path == Unwrap(message.executable) IN
            /\ handled' = Invoke(handled, binary_path)
            /\ wasm_path' = IF command = "simulate" THEN Some(binary_path) ELSE wasm_path
            /\ mpc' = IF should_strip THEN "strip_spawn" ELSE "read"
       ELSE UNCHANGED <<handled, wasm_path, mpc>>
    /\ UNCHANGED <<newVars, command, simulator, nNightly, rustc, hint, lastSpawn, diag, exitCode,
                   exitWhy, probe, descriptor, spawned, stream, running, outputs,
                   simStarted>>

\* `bin` of the strip_binary call in progress.
bin == Unwrap(stream[pos].executable)

\* strip_binary, lines 191-204.
StripSpawn ==
    /\ mpc = "strip_spawn"
    /\ \E outcome \in SpawnOutcomes :
        /\ SpawnUnwrap(objcopy_path, outcome, "strip_wait")
        /\ running' = IF Spawns(objcopy_path, outcome) THEN Some(StripCommand(bin)) ELSE None
    /\ UNCHANGED <<newVars, command, simulator, nNightly, rustc, hint, probe, descriptor,
                   spawned, stream, pos, handled, wasm_path, outputs, simStarted>>

\* wait_with_output: the child has run to its end and written its output file.
WaitChild(next) ==
    /\ outputs' = Append(outputs, Unwrap(running))
    /\ running' = None
    /\ mpc' = next
    /\ UNCHANGED <<newVars, command, simulator, nNightly, rustc, hint, lastSpawn, diag, exitCode,
                   exitWhy, probe, descriptor, spawned, stream, pos, handled, wasm_path,
                   simStarted>>

\* strip_binary, line 205.
StripWait ==
    /\ mpc = "strip_wait"
    /\ WaitChild("convert_spawn")

\* strip_binary, lines 206-216.
ConvertSpawn ==
    /\ mpc = "convert_spawn"
    /\ \E outcome \in SpawnOutcomes :
        /\ SpawnUnwrap(objcopy_path, outcome, "convert_wait")
        /\ running' = IF Spawns(objcopy_path, outcome) THEN Some(ConvertCommand(bin)) ELSE None
    /\ UNCHANGED <<newVars, command, simulator, nNightly, rustc, hint, probe, descriptor,
                   spawned, stream, pos, handled, wasm_path, outputs, simStarted>>

\* strip_binary, line 217, and back to the loop of build.
ConvertWait ==
    /\ mpc = "convert_wait"
    /\ WaitChild("read")

\* The stream has ended, build returns, and main returns Ok(()): lines 83-88, 103.
BuildReturn ==
    /\ mpc = "read"
    /\ pos = Len(stream)
    /\ command = "build"
    /\ Exit(0, "ok")
    /\ UNCHANGED <<newVars, command, simulator, nNightly, rustc, hint, lastSpawn, diag, probe,
                   descriptor, spawned, stream, pos, handled, wasm_path, running, outputs,
                   simStarted>>

LibraryMessage == "pros-simulator may not run libraries"

\* The stream has ended, build returns: main, lines 92-95.
SimulateExpect ==
    /\ mpc = "read"
    /\ pos = Len(stream)
    /\ command = "simulate"
    /\ IF expect(wasm_path, LibraryMessage).ok
       THEN /\ simStarted' = TRUE
            /\ mpc' = "simulate"
            /\ UNCHANGED <<hint, exitCode, exitWhy>>
       ELSE /\ hint' = LibraryMessage
            /\ Exit(101, "expect_failed")
            /\ UNCHANGED simStarted
    /\ UNCHANGED <<newVars, command, simulator, nNightly, rustc, lastSpawn, diag, probe, descriptor,
                   spawned, stream, pos, handled, wasm_path, running, outputs>>

\* pros_simulator::simulate(..).await.unwrap(), then Ok(()): lines 95-103.
SimulateEnd ==
    /\ mpc = "simulate"
    /\ \E ok \in BOOLEAN : IF ok THEN Exit(0, "ok") ELSE Exit(101, "panic")
    /\ UNCHANGED <<newVars, command, simulator, nNightly, rustc, hint, lastSpawn, diag, probe,
                   descriptor, spawned, stream, pos, handled, wasm_path, running, outputs,
                   simStarted>>

NextBuild ==
    \/ MainNightly
    \/ BuildNightly
    \/ WasmCheck
    \/ WriteTarget
    \/ SpawnBuild
    \/ ReadMessage
    \/ StripSpawn
    \/ StripWait
    \/ ConvertSpawn
    \/ ConvertWait
    \/ BuildReturn
    \/ SimulateExpect
    \/ SimulateEnd

SpecBuild == InitBuild /\ [][NextBuild]_vars

\* ================================================================ claims
\* What a finished or running `new` is compared against: the cache as it
\* was when the run began and the first fingerprint answer.
HadCachedRecord == IsSome(cacheAtCall.data)
CachedDataAtCall == Unwrap(cacheAtCall.data)
FirstSha == Unwrap(current_sha)
CacheWasCurrent ==
    /\ IsSome(current_sha)
    /\ HadCachedRecord
    /\ IsSome(cacheAtCall.sha)
    /\ FirstSha.ok
    /\ FirstSha.val = Unwrap(cacheAtCall.sha)
CacheWasStale ==
    /\ IsSome(current_sha)
    /\ HadCachedRecord
    /\ IsSome(cacheAtCall.sha)
    /\ FirstSha.ok
    /\ FirstSha.val # Unwrap(cacheAtCall.sha)
DownloadFailed == nDownload = 1 /\ bytes = None /\ pc \in {"unpack", "done"}
UsedData == Unwrap(template_used).data

\* C1: with download requested and a cached record whose fingerprint equals
\* the one the metadata fetch returned, no archive download is issued, the
\* cache files stay as they were, and the cached bytes are unpacked.
C1_CurrentCacheSkipsDownload ==
    (download_template /\ CacheWasCurrent) =>
        /\ nDownload = 0
        /\ nStore = 0
        /\ CacheRecord = cacheAtCall
        /\ pc = "done" => (IsSome(template_used) /\ UsedData = CachedDataAtCall)

C1_Witness ==
    /\ pc = "done"
    /\ result = "Ok"
    /\ download_template
    /\ CacheWasCurrent
    /\ nShaReq = 1

\* C2: no run attempts more than one archive download, and a run with
\* download requested whose cache is not current (stale, absent, without
\* fingerprint, or fingerprint fetch failed) attempts exactly one.
C2_ExactlyOneDownload ==
    /\ nDownload <= 1
    /\ (pc \in {"unpack", "done"} /\ download_template /\ IsSome(current_sha)
            /\ ~CacheWasCurrent)
        => nDownload = 1

C2_Witness ==
    /\ pc = "done"
    /\ download_template
    /\ IsSome(current_sha)
    /\ ~FirstSha.ok
    /\ HadCachedRecord
    /\ IsSome(cacheAtCall.sha)
    /\ nDownload = 1

\* C3: with a cached record of fingerprint F1, a remote fingerprint F2 # F1
\* and a successful download, the cache afterwards holds the downloaded
\* bytes together with F2, whatever the other requests of the run answer
\* (here even with every cache write succeeding and the remote unchanged
\* during the run).
C3_StaleCacheOverwrittenWithF2 ==
    (/\ pc = "done"
     /\ download_template
     /\ CacheWasStale
     /\ IsSome(bytes)
     /\ ~writeFailed
     /\ remoteVer = remoteAtCall)
    => (cacheFile = bytes /\ shaFile = Some(FirstSha.val))

\* C4: when the download fails in a run that had a cached record, the
\* warning is logged, the cache files stay as they were, the resolution
\* yields the cached template (no error), and its bytes are unpacked.
C4_FailedDownloadFallsBack ==
    (DownloadFailed /\ HadCachedRecord) =>
        /\ warned
        /\ nStore = 0
        /\ CacheRecord = cacheAtCall
        /\ resolved = Some(Template(CachedDataAtCall, cacheAtCall.sha))
        /\ pc = "done" => (IsSome(template_used) /\ UsedData = CachedDataAtCall)

C4_Witness ==
    /\ pc = "done"
    /\ result = "Ok"
    /\ DownloadFailed
    /\ CacheWasStale

\* C5: the bundled archive is unpacked exactly when the run had no cached
\* record and no successful download; the template then has no fingerprint;
\* and the cache file never holds the bundled archive.
C5_BundledOnlyAsLastResort ==
    /\ cacheFile # Some(BakedData)
    /\ (pc = "done" /\ IsSome(template_used)) =>
        /\ (UsedData = BakedData) <=> (~HadCachedRecord /\ bytes = None)
        /\ (UsedData = BakedData) => Unwrap(template_used).sha = None

C5_Witness ==
    /\ pc = "done"
    /\ result = "Ok"
    /\ download_template
    /\ nDownload = 1
    /\ template_used = Some(baked_in_template)
    /\ cacheDir

\* C6: a run without download requested attempts no archive download and
\* leaves the cache files alone; it unpacks the cached bytes if the cache
\* holds an archive (whatever the fingerprints) and the bundled archive
\* otherwise.
C6_NoDownloadUsesCacheAsIs ==
    (pc # "idle" /\ ~download_template) =>
        /\ nDownload = 0
        /\ nStore = 0
        /\ CacheRecord = cacheAtCall
        /\ (pc = "done" /\ result # "ProjectDirFull") =>
            /\ IsSome(template_used)
            /\ UsedData = IF HadCachedRecord THEN CachedDataAtCall ELSE BakedData

C6_Witness ==
    /\ pc = "done"
    /\ result = "Ok"
    /\ ~download_template
    /\ CacheWasStale

TargetFiles == IF IsSome(target) THEN Unwrap(target) ELSE {}
TargetListing == IF IsSome(target) THEN DirEntries(target) ELSE {}
ErrPositions == {i \in 1..Len(archive) : archive[i].kind = "err"}
FirstErr == CHOOSE i \in ErrPositions : \A j \in ErrPositions : i <= j
IsUtf8(path) == \A i \in 1..Len(path) : path[i] \notin NonUtf8
\* <target dir>/c1/.../cn for the entries r/c1/.../cn at the positions in I
Expected(I) == {TargetDir \o Tail(archive[i].path) : i \in I}
Utf8Positions == {i \in 1..Len(archive) :
                    archive[i].kind = "ok" /\ IsUtf8(Tail(archive[i].path))}
CommonRoot ==
    /\ ErrPositions = {}
    /\ \A i, j \in 1..Len(archive) : archive[i].path[1] = archive[j].path[1]

\* C8 as stated: a failed unpack leaves the target directory empty.
C8_FailedUnpackLeavesDirEmpty ==
    (pc = "done" /\ result = "UnpackError") => TargetListing = {}

\* C8 amended: the unpack fails exactly when the entry iterator yields an
\* error; the entries before the first such position have been written by
\* then and stay, so the directory is empty only if none precedes it.
C8_FailedUnpackKeepsPrefix ==
    pc = "done" =>
        /\ (result = "UnpackError") <=> (ErrPositions # {})
        /\ (result = "UnpackError") =>
             TargetFiles = Expected({i \in Utf8Positions : i < FirstErr})

C8_Witness ==
    /\ pc = "done"
    /\ result = "UnpackError"
    /\ FirstErr = 2
    /\ TargetListing # {}

\* C9 as stated: with one common first segment, every entry r/c1/.../cn is
\* written to <target dir>/c1/.../cn.
C9_EveryEntryWrittenStripped ==
    (pc = "done" /\ CommonRoot) => TargetFiles = Expected(1..Len(archive))

\* C9 amended: every entry whose path after the first segment is valid
\* UTF-8 is written to <target dir>/c1/.../cn (first segment removed, the
\* rest kept in order, at every depth); the other entries are skipped.
C9_Utf8EntriesWrittenStripped ==
    (pc = "done" /\ CommonRoot) =>
        /\ result # "UnpackError"
        /\ TargetFiles = Expected(Utf8Positions)

C9_Witness ==
    /\ pc = "done"
    /\ CommonRoot
    /\ Len(archive) = 2
    /\ Len(archive[1].path) = MaxDepth
    /\ ~IsUtf8(Tail(archive[2].path))
    /\ TargetFiles = {TargetDir \o Tail(archive[1].path)}

\* ---- manifest rewrite (under SpecManifest)
Occurrences(s) == {i \in 1..Len(s) : MatchAt(s, i, Placeholder)}
ManifestIn == Unwrap(manifest_in)
ManifestOut == Unwrap(manifest_out)
PlaceholderAt == CHOOSE i \in Occurrences(ManifestIn) : TRUE
Before == SubSeq(ManifestIn, 1, PlaceholderAt - 1)
After == SubSeq(ManifestIn, PlaceholderAt + Len(Placeholder), Len(ManifestIn))
\* The placeholder is spelled by the inserted name, alone or together with
\* the text next to it.
NameSpellsPlaceholder ==
    \E i \in Occurrences(Before \o name \o After) :
        /\ i + Len(Placeholder) - 1 > Len(Before)
        /\ i <= Len(Before) + Len(name)
RewriteOfSingle ==
    pc = "done" /\ IsSome(manifest_out) /\ Cardinality(Occurrences(ManifestIn)) = 1

\* C10 as stated: a manifest holding the placeholder once is rewritten to
\* hold the name in its place and no placeholder at all, for every name.
C10_NoPlaceholderLeft ==
    RewriteOfSingle =>
        /\ ManifestOut = Before \o name \o After
        /\ Occurrences(ManifestOut) = {}

\* C10 amended: the output is the input with the one placeholder replaced
\* by the name, and it holds no placeholder unless the name itself spells
\* one there (it contains the placeholder, or completes it with the text
\* next to it).
C10_PlaceholderReplacedOnce ==
    RewriteOfSingle =>
        /\ ManifestOut = Before \o name \o After
        /\ ~NameSpellsPlaceholder => Occurrences(ManifestOut) = {}

C10_Witness ==
    /\ RewriteOfSingle
    /\ PlaceholderAt = 2
    /\ After # << >>
    /\ ~NameSpellsPlaceholder
    /\ Occurrences(ManifestOut) = {}

\* ---- template acquisition errors and ordering (under Spec)
FirstShaMalformed ==
    IsSome(current_sha) /\ FirstSha.err = "MalformedResponse"
SecondShaFailed == IsSome(fetched) /\ Unwrap(fetched).sha = None
AcquisitionStepFailed ==
    \/ IsSome(current_sha) /\ ~FirstSha.ok
    \/ DownloadFailed
    \/ SecondShaFailed
    \/ writeFailed
ScaffoldResults == {"Ok", "UnpackError", "ManifestError"}

\* C17 as stated: a malformed metadata response ends the invocation with
\* that error, and no template source is used after it.
C17_MalformedSurfaced ==
    (pc = "done" /\ FirstShaMalformed) =>
        /\ result = "MalformedResponse"
        /\ nDownload = 0
        /\ template_used = None

\* C17 amended: a malformed metadata response is handled like any failed
\* fingerprint fetch: the run goes on, attempts one archive download if
\* download was requested (none otherwise), resolves a template and ends
\* with the result of the unpack and the rewrite.
C17_MalformedFallsThrough ==
    FirstShaMalformed =>
        /\ result # "MalformedResponse"
        /\ pc \in {"fetch_send", "fetch_wait", "sha2_send", "sha2_wait", "store",
                   "unpack", "done"}
        /\ pc \in {"unpack", "done"} =>
               nDownload = (IF download_template THEN 1 ELSE 0)
        /\ pc = "done" => (IsSome(template_used) /\ result \in ScaffoldResults)

C17_Witness ==
    /\ pc = "done"
    /\ FirstShaMalformed
    /\ download_template
    /\ IsSome(bytes)
    /\ result = "Ok"

\* C18 as stated: every failing acquisition step of a finished run either
\* ended the run with an error or was logged as a warning.
C18_NoSilentFailure ==
    (pc = "done" /\ AcquisitionStepFailed) =>
        (warned \/ result \notin (ScaffoldResults \cup {"ProjectDirFull"}))

\* C18 amended: the warning is logged exactly when the archive download
\* failed; a failed fingerprint fetch and a failed cache write are dropped
\* without warning, and no acquisition failure ends the run with an error.
C18_OnlyFailedDownloadWarns ==
    /\ pc \in {"unpack", "done"} => (warned <=> DownloadFailed)
    /\ pc \notin {"unpack", "done"} => ~warned
    /\ (pc = "done" /\ result # "ProjectDirFull") =>
           (IsSome(template_used) /\ result \in ScaffoldResults)

C18_Witness ==
    /\ pc = "done"
    /\ result = "Ok"
    /\ ~FirstSha.ok
    /\ SecondShaFailed
    /\ writeFailed
    /\ ~warned

\* C19: at most one request is in flight; an archive download is sent only
\* after the first fingerprint request has been sent and answered, with
\* nothing else in flight; the cache is written only after a download
\* succeeded and every request was answered.
C19_RequestsSequenced ==
    /\ Cardinality(inflight) <= 1
    /\ nDownload > 0 => (nShaReq >= 1 /\ IsSome(current_sha))
    /\ "download" \in inflight => nShaReq = 1
    /\ "sha" \in inflight => pc \in {"sha_wait", "sha2_wait"}
    /\ nStore > 0 => (IsSome(bytes) /\ nDownload = 1 /\ inflight = {})
    /\ (pc # "idle" /\ CacheRecord # cacheAtCall) => nStore > 0

C19_Witness ==
    /\ "download" \in inflight
    /\ IsSome(current_sha)
    /\ ~FirstSha.ok
    /\ nShaReq = 1

\* C20: a cache holding bytes and a fingerprint holds the fingerprint of the
\* version the bytes came from (the bytes of version v have fingerprint v),
\* so a run that skips the download on matching fingerprints unpacks the
\* archive of the fingerprint the remote answered.
C20_CacheCoherent ==
    /\ (IsSome(cacheFile) /\ IsSome(shaFile)) => Unwrap(shaFile) = Unwrap(cacheFile)
    /\ (pc = "done" /\ download_template /\ CacheWasCurrent /\ IsSome(template_used))
          => UsedData = FirstSha.val

\* ---- build driver (under SpecBuild)
\* The executable paths of the artifact messages of s, in the order of s.
ExecutablesOf(s) ==
    LET sel == SelectSeq(s, HasExecutable)
    IN [i \in 1..Len(sel) |-> Unwrap(sel[i].executable)]

Consumed == SubSeq(stream, 1, pos)

\* build has returned to main.
BuildReturned ==
    /\ spawned
    /\ \/ mpc = "simulate"
       \/ simStarted
       \/ mpc = "exited" /\ exitWhy \in {"ok", "expect_failed"}

\* C11: at every moment the arguments the handler has been called with are
\* the executable paths of the artifact messages consumed so far, in stream
\* order (other messages and artifacts without an executable add no call), and
\* once build has returned they are those of the whole stream; a stream
\* without an executable gives no call.
C11_HandlerOncePerExecutable ==
    /\ spawned => handled = ExecutablesOf(Consumed)
    /\ BuildReturned => (pos = Len(stream) /\ handled = ExecutablesOf(stream))
    /\ ~spawned => handled = << >>

C11_Witness ==
    /\ BuildReturned
    /\ Len(stream) = 3
    /\ Len(handled) = 2
    /\ handled[1] # handled[2]
    /\ ~HasExecutable(stream[2])

\* C12: in a simulate invocation the simulator is started only once the whole
\* stream has been consumed and only if it held an executable artifact; when
\* the invocation has ended after the build child ran, the simulator was
\* started exactly if the stream held an executable; with no handler call the
\* invocation ends in a panic that prints the library message (status 101)
\* and the simulator is never started.  A build invocation never starts it.
C12_SimulatorIffExecutable ==
    /\ simStarted =>
        (command = "simulate" /\ pos = Len(stream) /\ ExecutablesOf(stream) # << >>)
    /\ (command = "simulate" /\ spawned /\ mpc = "exited") =>
        (simStarted <=> ExecutablesOf(stream) # << >>)
    /\ (command = "simulate" /\ spawned /\ mpc = "exited" /\ handled = << >>) =>
        (~simStarted /\ exitCode = Some(101) /\ hint = LibraryMessage)

C12_Witness ==
    /\ command = "simulate"
    /\ exitWhy = "expect_failed"
    /\ Len(stream) = 2
    /\ pos = 2
    /\ ~simStarted

\* A build invocation without the simulator flag.
PhysicalBuild == command = "build" /\ ~simulator

\* The objcopy commands started so far, and the files they write.
ObjcopyRuns == outputs \o running
OutputFiles == {ObjcopyRuns[i].output : i \in DOMAIN ObjcopyRuns}
WrittenFiles == {outputs[i].output : i \in DOMAIN outputs}

\* Handler calls that have returned.
CompletedCalls ==
    IF mpc = "read" \/ BuildReturned THEN Len(handled) ELSE Len(handled) - 1

\* C13: in simulator builds and simulate invocations objcopy is never run, so
\* no .stripped or .bin file is produced; in a physical build every executable
\* whose handler call has returned has both its .stripped and its .bin file
\* written; a conversion is started only after the strip that writes its
\* input has run to its end; and no objcopy command has a produced executable
\* as its output file.
C13_PostprocessOnlyPhysical ==
    /\ ~PhysicalBuild => ObjcopyRuns = << >>
    /\ PhysicalBuild =>
        \A k \in 1..CompletedCalls :
            /\ Sibling(handled[k], ".stripped") \in WrittenFiles
            /\ Sibling(handled[k], ".bin") \in WrittenFiles
    /\ \A j \in DOMAIN ObjcopyRuns :
        ObjcopyRuns[j].op = "binary" =>
            /\ j > 1
            /\ j - 1 <= Len(outputs)
            /\ outputs[j - 1].op = "strip"
            /\ outputs[j - 1].output = ObjcopyRuns[j].input
    /\ \A k \in DOMAIN handled : handled[k] \notin OutputFiles
    /\ \A i \in 1..Len(stream) :
        HasExecutable(stream[i]) => Unwrap(stream[i].executable) \notin OutputFiles

C13_Witness ==
    /\ PhysicalBuild
    /\ exitWhy = "ok"
    /\ Len(handled) = 2
    /\ handled[1] # handled[2]
    /\ Len(outputs) = 4

\* The version string seen by the last toolchain check lacks the marker.
NightlyCheckFailed == IsSome(rustc) /\ ~Contains(Unwrap(rustc), "nightly")

\* C14: once a toolchain check has seen a version string without "nightly"
\* the process has ended with status 1 after printing the rustup hint; the
\* target descriptor has not been written, the build child has not been
\* spawned, the handler has not been called, and no further check was made
\* (the failing check is the last of at most two).
C14_NightlyCheckFatal ==
    /\ NightlyCheckFailed =>
        /\ mpc = "exited"
        /\ exitCode = Some(1)
        /\ exitWhy = "not_nightly"
        /\ hint = "rustup override set nightly"
        /\ ~descriptor
        /\ ~spawned
        /\ handled = << >>
        /\ outputs = << >>
        /\ ~simStarted
        /\ nNightly <= 2
    /\ exitWhy = "not_nightly" => NightlyCheckFailed
    /\ (descriptor \/ spawned) => (nNightly = 2 /\ ~NightlyCheckFailed)

C14_Witness ==
    /\ NightlyCheckFailed
    /\ nNightly = 1
    /\ mpc = "exited"

\* What the rustup probe gave, when it was made.
ProbeNotExecuted == IsSome(probe) /\ ~Unwrap(probe).ok
ProbeSaysAbsent ==
    /\ IsSome(probe)
    /\ Unwrap(probe).ok
    /\ ~Contains(Unwrap(probe).stdout, "wasm32-unknown-unknown")

\* The build went on to spawning the child: the spawn is next, or was made.
ReachedSpawn == mpc = "spawn" \/ spawned \/ exitWhy \in {"not_found", "panic"}

\* C15: the probe is made only in simulator mode.  If it could not be
\* executed the build goes on to spawn the child as if the target were
\* installed; if it ran and did not list wasm32-unknown-unknown the process
\* has ended with status 1 and the `rustup target add` hint and the child is
\* never spawned; in physical mode no probe is made and the process never
\* ends for a missing target.
C15_ProbeFailOpen ==
    /\ IsSome(probe) => for_simulator
    /\ ProbeNotExecuted => (ReachedSpawn /\ exitWhy # "no_wasm_target")
    /\ ProbeSaysAbsent =>
        /\ mpc = "exited"
        /\ exitCode = Some(1)
        /\ exitWhy = "no_wasm_target"
        /\ hint = "rustup target add wasm32-unknown-unknown"
        /\ ~spawned
        /\ handled = << >>
    /\ exitWhy = "no_wasm_target" => ProbeSaysAbsent
    /\ ~for_simulator => (probe = None /\ exitWhy # "no_wasm_target")

C15_Witness ==
    /\ ProbeNotExecuted
    /\ spawned
    /\ Len(handled) = 1

\* The last Command::spawn failed with ErrorKind::NotFound.
SpawnNotFound == IsSome(lastSpawn) /\ Unwrap(lastSpawn).outcome = "NotFound"

\* C16: when a spawn of cargo or of objcopy has failed with NotFound, the
\* process has ended with status 1 and the diagnostic names the program that
\* was to be spawned.  If that was the build tool, the child never ran and the
\* handler was never called; if it was objcopy, the process ended inside the
\* handler call for the message consumed last, so the handled executables are
\* those of the messages up to it and nothing after it is handled.
C16_NotFoundFatal ==
    /\ SpawnNotFound =>
        /\ mpc = "exited"
        /\ exitCode = Some(1)
        /\ exitWhy = "not_found"
        /\ diag = Some(Unwrap(lastSpawn).program)
        /\ running = None
        /\ ~simStarted
        /\ Unwrap(lastSpawn).program = cargo_bin =>
            (~spawned /\ handled = << >> /\ pos = 0 /\ outputs = << >>)
        /\ Unwrap(lastSpawn).program = objcopy_path =>
            /\ spawned
            /\ pos >= 1
            /\ HasExecutable(stream[pos])
            /\ handled = ExecutablesOf(Consumed)
            /\ handled[Len(handled)] = Unwrap(stream[pos].executable)
    /\ exitWhy = "not_found" => SpawnNotFound
    /\ IsSome(diag) => SpawnNotFound

C16_Witness ==
    /\ SpawnNotFound
    /\ Unwrap(lastSpawn).program = objcopy_path
    /\ Len(outputs) = 1
    /\ pos < Len(stream)
    /\ HasExecutable(stream[pos + 1])

====
